---- MODULE Spec2Model ----
(***************************************************************************)
(* quantcharts: the array-to-polyline converters (qc/dataproc.py and       *)
(* qc/experiments/plotpyex.py) and the mouse pan/zoom controller of the    *)
(* chart view (qc/experiments/plotpyex.py).                                *)
(*                                                                         *)
(* Two specifications share the module.  ConvSpec runs one converter call  *)
(* statement by statement on inputs drawn from bounded sets.  Spec is the  *)
(* chart window: series are added and mouse events are delivered to the    *)
(* view's handlers.                                                        *)
(***************************************************************************)
EXTENDS Integers, Sequences, FiniteSets

VARIABLES
    \* ---- one converter call ----
    fn,                 \* which converter is running
    xdata, ydata,       \* its two arguments
    pc,                 \* the statement the call is at
    polyline,           \* None, or <<n>>: a QPolygonF holding n points
    memory,             \* the numpy view of the polyline's coordinate buffer
    \* ---- the chart window ----
    mouse_tracker,      \* MouseTracker: _x, _y, _total_dx, _total_dy
    pan_active,         \* TestChartView._pan_active
    zoom_active,        \* TestChartView._zoom_active
    rubber_band_active, \* TestChartView._rubber_band_active
    axisX, axisY,       \* None, or <<[min, max]>>: the chart's axes
    chart,              \* TestChart: _x_min, _x_max, _y_min, _y_max
    series,             \* None, or <<box>>: bounding box of the series added
    ncurves,            \* TestWindow.ncurves
    shown,              \* window.show() was called: events are delivered
    scrolled,           \* sum of the arguments of the chart.scroll calls
    nops,               \* tracked moves and rubber-band zooms so far
    aborted,            \* a handler raised: the application was terminated
    \* ---- history of the events delivered ----
    gesture,            \* the last press or release delivered
    drag                \* None, or the pan drag in progress

convVars == <<fn, xdata, ydata, pc, polyline, memory>>
viewVars == <<mouse_tracker, pan_active, zoom_active, rubber_band_active,
              axisX, axisY, chart, series, ncurves, shown, scrolled, nops,
              aborted>>
histVars == <<gesture, drag>>
vars == <<convVars, viewVars, histVars>>

\* Python's None; a value v that may be None is carried as <<v>>.
None == <<>>
Some(v) == <<v>>
Val(o) == o[1]

Min(a, b) == IF a < b THEN a ELSE b
Max(a, b) == IF a > b THEN a ELSE b
Abs(a) == IF a < 0 THEN -a ELSE a

RECURSIVE Pow(_, _)
Pow(b, e) == IF e = 0 THEN 1 ELSE b * Pow(b, e - 1)

(***************************************************************************)
(*                             THE CONVERTERS                              *)
(***************************************************************************)

\* Longest input sequence and largest sample value of a converter call.
MaxLen == 3
MaxVal == 2

\* Sample values are non-zero: QPolygonF(n) fills its points with (0, 0),
\* so a zero in the buffer is a slot no assignment wrote.
Samples == 1..MaxVal
Inputs == UNION {[1..n -> Samples] : n \in 0..MaxLen}

Converters == {"to_polyline", "series_to_polyline", "series_to_polystep"}

\* One bound of a Python slice, normalised for a sequence of length n:
\* None is the default, a negative bound counts from the end, and the
\* result is clipped to 0..n.
SliceBound(n, bound, default) ==
    IF bound = None THEN default
    ELSE IF Val(bound) < 0 THEN Max(Val(bound) + n, 0)
    ELSE Min(Val(bound), n)

\* The 0-based positions a[start:stop:step] selects in a sequence of
\* length n, for step > 0.
SliceIndices(n, start, stop, step) ==
    LET lo == SliceBound(n, start, 0)
        hi == SliceBound(n, stop, n)
        count == IF hi <= lo THEN 0 ELSE (hi - lo + step - 1) \div step
    IN  [i \in 1..count |-> lo + (i - 1) * step]

\* a[start:stop:step] of a Python list or array: a new sequence.
Slice(a, start, stop, step) ==
    LET idx == SliceIndices(Len(a), start, stop, step)
    IN  [i \in 1..Len(idx) |-> a[idx[i] + 1]]

\* A numpy view is the sequence of buffer offsets it aliases.
WholeView(n) == [i \in 1..n |-> i - 1]
SliceView(view, start, stop, step) == Slice(view, start, stop, step)

\* numpy's view[...] = values: the values must have the view's length, or
\* be a single value, which is broadcast; anything else is a ValueError.
CanAssign(view, values) ==
    Len(values) = Len(view) \/ Len(values) = 1

Assign(mem, view, values) ==
    [k \in 1..Len(mem) |->
        IF \E i \in 1..Len(view) : view[i] + 1 = k
        THEN LET i == CHOOSE j \in 1..Len(view) : view[j] + 1 = k
             IN  IF Len(values) = Len(view) THEN values[i] ELSE values[1]
        ELSE mem[k]]

\* The number of points the converter asks QPolygonF for.
PolySize ==
    IF fn = "series_to_polystep" THEN 2 * Len(xdata) - 1 ELSE Len(xdata)

\* A slip in the second slice: it starts at 0, on the x coordinates.
YViewFromZero ==
    SliceView(WholeView(Len(memory)), Some(0), Some((PolySize - 1) * 2 + 2), 2)

\* memory[:(size-1)*2+1:2] and memory[1:(size-1)*2+2:2]: the x and the y
\* coordinates of the points.
XView == SliceView(WholeView(Len(memory)), None, Some((PolySize - 1) * 2 + 1), 2)
YView == SliceView(WholeView(Len(memory)), Some(1), Some((PolySize - 1) * 2 + 2), 2)

ConvInit ==
    /\ fn \in Converters
    /\ xdata \in Inputs
    /\ ydata \in Inputs
    /\ pc = "call"
    /\ polyline = None
    /\ memory = <<>>

\* A slip in the comparison: only a shorter ybar is refused.
CheckLengthOneSided ==
    /\ pc = "call"
    /\ fn = "to_polyline"
    /\ pc' = IF Len(xdata) > Len(ydata) THEN "ValueError" ELSE "alloc"
    /\ UNCHANGED <<fn, xdata, ydata, polyline, memory>>
    /\ UNCHANGED <<viewVars, histVars>>

\* to_polyline: nx = len(xbar); if nx != len(ybar): raise ValueError.
CheckLength ==
    /\ pc = "call"
    /\ fn = "to_polyline"
    /\ pc' = IF Len(xdata) # Len(ydata) THEN "ValueError" ELSE "alloc"
    /\ UNCHANGED <<fn, xdata, ydata, polyline, memory>>
    /\ UNCHANGED <<viewVars, histVars>>

\* series_to_polyline, series_to_polystep: size is computed, nothing is
\* compared.
ComputeSize ==
    /\ pc = "call"
    /\ fn # "to_polyline"
    /\ pc' = "alloc"
    /\ UNCHANGED <<fn, xdata, ydata, polyline, memory>>
    /\ UNCHANGED <<viewVars, histVars>>

\* polyline = QPolygonF(size); memory = np.frombuffer(polyline.data()):
\* size points, all (0, 0).
Allocate ==
    /\ pc = "alloc"
    /\ PolySize >= 0
    /\ polyline' = Some(PolySize)
    /\ memory' = [k \in 1..(2 * PolySize) |-> 0]
    /\ pc' = "write_x"
    /\ UNCHANGED <<fn, xdata, ydata>>
    /\ UNCHANGED <<viewVars, histVars>>

\* QPolygonF(-1): a release build of the toolkit gives the empty polygon.
AllocateNegativeEmpty ==
    /\ pc = "alloc"
    /\ PolySize < 0
    /\ polyline' = Some(0)
    /\ memory' = <<>>
    /\ pc' = "write_x"
    /\ UNCHANGED <<fn, xdata, ydata>>
    /\ UNCHANGED <<viewVars, histVars>>

\* QPolygonF(-1): a debug build of the toolkit stops on its size assertion.
AllocateNegativeAssert ==
    /\ pc = "alloc"
    /\ PolySize < 0
    /\ pc' = "aborted"
    /\ UNCHANGED <<fn, xdata, ydata, polyline, memory>>
    /\ UNCHANGED <<viewVars, histVars>>

\* One strided assignment of the converter: view = values, then on to the
\* next statement, or the ValueError of a failed broadcast.
Store(view, values, next) ==
    IF CanAssign(view, values)
    THEN /\ memory' = Assign(memory, view, values)
         /\ pc' = next
    ELSE /\ memory' = memory
         /\ pc' = "ValueError"

\* memory[:(size-1)*2+1:2] = xdata
\* (series_to_polystep: memory[:(size-1)*2+1:2][::2] = xdata).
WriteX ==
    /\ pc = "write_x"
    /\ IF fn = "series_to_polystep"
       THEN Store(SliceView(XView, None, None, 2), xdata, "write_y")
       ELSE Store(XView, xdata, "write_y")
    /\ UNCHANGED <<fn, xdata, ydata, polyline>>
    /\ UNCHANGED <<viewVars, histVars>>

\* memory[1:(size-1)*2+2:2] = ydata
\* (series_to_polystep: memory[1:(size-1)*2+2:2][::2] = ydata).
WriteY ==
    /\ pc = "write_y"
    /\ IF fn = "series_to_polystep"
       THEN Store(SliceView(YView, None, None, 2), ydata, "step_x")
       ELSE Store(YView, ydata, "return")
    /\ UNCHANGED <<fn, xdata, ydata, polyline>>
    /\ UNCHANGED <<viewVars, histVars>>

\* series_to_polystep: memory[:(size-1)*2+1:2][1::2] = xdata[1:]
WriteStepX ==
    /\ pc = "step_x"
    /\ Store(SliceView(XView, Some(1), None, 2),
             Slice(xdata, Some(1), None, 1), "step_y")
    /\ UNCHANGED <<fn, xdata, ydata, polyline>>
    /\ UNCHANGED <<viewVars, histVars>>

\* A slip in the last slice: the inserted points take ydata[1:], the y of
\* the next sample.
WriteStepYNext ==
    /\ pc = "step_y"
    /\ Store(SliceView(YView, Some(1), None, 2),
             Slice(ydata, Some(1), None, 1), "return")
    /\ UNCHANGED <<fn, xdata, ydata, polyline>>
    /\ UNCHANGED <<viewVars, histVars>>

\* series_to_polystep: memory[1:(size-1)*2+2:2][1::2] = ydata[:-1]
WriteStepY ==
    /\ pc = "step_y"
    /\ Store(SliceView(YView, Some(1), None, 2),
             Slice(ydata, None, Some(-1), 1), "return")
    /\ UNCHANGED <<fn, xdata, ydata, polyline>>
    /\ UNCHANGED <<viewVars, histVars>>

\* return polyline
Return ==
    /\ pc = "return"
    /\ pc' = "returned"
    /\ UNCHANGED <<fn, xdata, ydata, polyline, memory>>
    /\ UNCHANGED <<viewVars, histVars>>

ConvNext ==
    \/ CheckLength
    \/ ComputeSize
    \/ Allocate
    \/ AllocateNegativeEmpty
    \/ AllocateNegativeAssert
    \/ WriteX
    \/ WriteY
    \/ WriteStepX
    \/ WriteStepY
    \/ Return

\* The points of the returned polyline, as <<x, y>> pairs.
Points == [i \in 1..Val(polyline) |-> <<memory[2 * i - 1], memory[2 * i]>>]

(***************************************************************************)
(*                            THE CHART WINDOW                             *)
(***************************************************************************)

\* Series the window may receive, and the tracked moves and rubber-band
\* zooms (each rescales an axis by hundredths of its span) of one run.
MaxCurves == 2
MaxOps == 2

\* Pointer positions <<x, y>>: NearStep pixels apart in x, which is below
\* the zoom clamp, and further apart than the clamp in y.
NearStep == 1
ZoomLimit == 10
Positions == { <<0, 0>>, <<NearStep, ZoomLimit + NearStep>> }

\* Axis values are exact rationals, held as multiples of 1/Scale.
Scale == Pow(100, MaxOps)

\* The side of the plot area in pixels: chart.scroll(dx, dy) moves an axis
\* by dx/PlotSide of its span.
PlotSide == 10 * 10

Buttons == {"Left", "Right", "Middle"}
\* event.modifiers(): none, exactly Shift, Shift with Control.
Modifiers == {"NoModifier", "ShiftModifier", "ShiftControl"}

\* Bounding boxes of the data of a series, in data units, min < max.
DataBoxes ==
    { [x_min |-> 0, x_max |-> 4, y_min |-> 1, y_max |-> 3],
      [x_min |-> 2, x_max |-> 6, y_min |-> 0, y_max |-> 2] }

Scaled(box) ==
    [x_min |-> box.x_min * Scale, x_max |-> box.x_max * Scale,
     y_min |-> box.y_min * Scale, y_max |-> box.y_max * Scale]

Union(a, b) ==
    [x_min |-> Min(a.x_min, b.x_min), x_max |-> Max(a.x_max, b.x_max),
     y_min |-> Min(a.y_min, b.y_min), y_max |-> Max(a.y_max, b.y_max)]

HasAxes == axisX # None /\ axisY # None
Span(axis) == axis.max - axis.min

\* ---- QValueAxis ----
\* setRange(min, max): ignored when min > max.
SetRange(axis, lo, hi) == IF lo > hi THEN axis ELSE [min |-> lo, max |-> hi]
\* setMin(min) is setRange(min, qMax(min, max)).
SetMin(axis, lo) == SetRange(axis, lo, Max(lo, axis.max))
\* setMax(max) is setRange(qMin(min, max), max).
SetMax(axis, hi) == SetRange(axis, Min(axis.min, hi), hi)
\* The axis moved by d pixels of the plot area.
Moved(axis, d) ==
    LET by == (Span(axis) * d) \div PlotSide
    IN  [min |-> axis.min + by, max |-> axis.max + by]

\* ---- MouseTracker ----
NewTracker == [x |-> None, y |-> None, total_dx |-> 0, total_dy |-> 0]

\* start(event)
Start(t, x, y) == [t EXCEPT !.x = Some(x), !.y = Some(y)]

\* track(event): the deltas to the stored position, which becomes (x, y).
TrackDelta(t, x, y) == [dx |-> x - Val(t.x), dy |-> y - Val(t.y)]

\* A slip in track: the stored position is not moved to (x, y).
TrackKeepsPosition(t, x, y) ==
    [t EXCEPT !.total_dx = t.total_dx + TrackDelta(t, x, y).dx,
              !.total_dy = t.total_dy + TrackDelta(t, x, y).dy]

Track(t, x, y) ==
    [x |-> Some(x), y |-> Some(y),
     total_dx |-> t.total_dx + TrackDelta(t, x, y).dx,
     total_dy |-> t.total_dy + TrackDelta(t, x, y).dy]
\* x - self._x is a TypeError while self._x is None.
CanTrack(t) == t.x # None /\ t.y # None

\* ---- history ----
\* What a press starts, and what a release of a button ends.
PressKind(button, mods) ==
    IF button = "Left" /\ mods = "ShiftModifier" THEN "rubber"
    ELSE IF button = "Left" THEN "pan"
    ELSE IF button = "Right" THEN "zoom"
    ELSE "other"

Pressed(kind) == <<"pressed", kind>>
Released(button) == <<"released", button>>
NoGesture == <<"none", "none">>
Releases == {Released(b) : b \in {"Left", "Right", "Middle"}}

ViewInit ==
    /\ mouse_tracker = NewTracker
    /\ pan_active = FALSE
    /\ zoom_active = FALSE
    /\ rubber_band_active = FALSE
    /\ axisX = None
    /\ axisY = None
    /\ chart = None
    /\ series = None
    /\ ncurves = 0
    /\ shown = FALSE
    /\ scrolled = [dx |-> 0, dy |-> 0]
    /\ nops = 0
    /\ aborted = None
    /\ gesture = NoGesture
    /\ drag = None

\* No converter call is in progress.
ConvIdle ==
    /\ fn = "none"
    /\ xdata = <<>>
    /\ ydata = <<>>
    /\ pc = "idle"
    /\ polyline = None
    /\ memory = <<>>

Init == ConvIdle /\ ViewInit

ConvSpecInit == ConvInit /\ ViewInit

\* TestChart.createDefaultAxes after chart.addSeries(curve): the axes span
\* all the series, and their ranges are recorded in the chart.
\* TestWindow.add_data and add_scatter end with it and count the curve.
\* The script adds its series before it shows the window.
AddSeries(box) ==
    LET all == IF series = None THEN Scaled(box)
               ELSE Union(Val(series), Scaled(box))
    IN  /\ ~shown
        /\ ncurves < MaxCurves
        /\ series' = Some(all)
        /\ axisX' = Some([min |-> all.x_min, max |-> all.x_max])
        /\ axisY' = Some([min |-> all.y_min, max |-> all.y_max])
        /\ chart' = Some([x_min |-> all.x_min, x_max |-> all.x_max,
                          y_min |-> all.y_min, y_max |-> all.y_max])
        /\ ncurves' = ncurves + 1
        /\ UNCHANGED <<mouse_tracker, pan_active, zoom_active,
                       rubber_band_active, shown, scrolled, nops, aborted,
                       gesture, drag, convVars>>

add_data == \E box \in DataBoxes : AddSeries(box)

add_scatter == \E box \in DataBoxes : AddSeries(box)

\* window.show(): from here on the view receives mouse events.
show ==
    /\ ~shown
    /\ shown' = TRUE
    /\ UNCHANGED <<mouse_tracker, pan_active, zoom_active,
                   rubber_band_active, axisX, axisY, chart, series, ncurves,
                   scrolled, nops, aborted, gesture, drag, convVars>>

Delivered == shown /\ aborted = None

\* A slip in the press handler: the right button does not start the
\* tracker.
PressTrackerLeftOnly(button, mods, x, y) ==
    IF button = "Left" /\ mods # "ShiftModifier"
    THEN Start(mouse_tracker, x, y)
    ELSE mouse_tracker

\* A slip in the press handler: every left press pans, Shift or not.
PressPanAnyLeft(button, mods) ==
    IF button = "Left" THEN TRUE ELSE pan_active

\* TestChartView.mousePressEvent
PressTracker(button, mods, x, y) ==
    IF button = "Left" /\ mods = "ShiftModifier" THEN mouse_tracker
    ELSE IF button \in {"Left", "Right"} THEN Start(mouse_tracker, x, y)
    ELSE mouse_tracker

PressPan(button, mods) ==
    IF button = "Left" /\ mods # "ShiftModifier" THEN TRUE ELSE pan_active

PressZoom(button, mods) ==
    IF button = "Right" THEN TRUE ELSE zoom_active

PressRubberBand(button, mods) ==
    IF button = "Left" /\ mods = "ShiftModifier" THEN TRUE
    ELSE rubber_band_active

mousePressEvent ==
    \E button \in Buttons, mods \in Modifiers, p \in Positions :
      LET x == p[1]
          y == p[2]
      IN
        /\ Delivered
        /\ mouse_tracker' = PressTracker(button, mods, x, y)
        /\ pan_active' = PressPan(button, mods)
        /\ zoom_active' = PressZoom(button, mods)
        /\ rubber_band_active' = PressRubberBand(button, mods)
        /\ gesture' = Pressed(PressKind(button, mods))
        /\ drag' = IF PressKind(button, mods) = "pan"
                   THEN Some([x0 |-> x, y0 |-> y, x |-> x, y |-> y,
                              sx |-> scrolled.dx, sy |-> scrolled.dy])
                   ELSE None
        /\ UNCHANGED <<axisX, axisY, chart, series, ncurves, shown,
                       scrolled, nops, aborted, convVars>>

\* TestChartView.mouseReleaseEvent, the middle button:
\* axisX.setRange(chart._x_min, chart._x_max), and the same for axisY.
ResetAxisX == SetRange(Val(axisX), Val(chart).x_min, Val(chart).x_max)
\* A slip in the reset: the Y axis is given the X range.
ResetAxisYFromX == SetRange(Val(axisY), Val(chart).x_min, Val(chart).x_max)
ResetAxisY == SetRange(Val(axisY), Val(chart).y_min, Val(chart).y_max)

\* QChartView.mouseReleaseEvent with the rubber band enabled: the left
\* button zooms into the rectangle drawn (here the centred half of the
\* plot), the right button zooms out by two; either may also do nothing
\* (the band was not shown, or is shown and the button is the right one).
RubberBandZoom(button, axis) ==
    IF button = "Left"
    THEN [min |-> axis.min + (Span(axis) * 25) \div 100,
          max |-> axis.max - (Span(axis) * 25) \div 100]
    ELSE [min |-> axis.min - (Span(axis) * 50) \div 100,
          max |-> axis.max + (Span(axis) * 50) \div 100]

RubberBandZooms(button) ==
    rubber_band_active /\ button \in {"Left", "Right"} /\ HasAxes
        /\ nops < MaxOps

ReleaseHistory(button) ==
    /\ gesture' = Released(button)
    /\ drag' = None
    /\ UNCHANGED <<mouse_tracker, chart, series, ncurves, shown,
                   scrolled, convVars>>

\* A slip in the release handler: the zoom flag is left as it is.
ReleaseFlagsKeepZoom ==
    /\ rubber_band_active' = FALSE
    /\ pan_active' = FALSE
    /\ zoom_active' = zoom_active

\* The handler from the call of the base class on: the flags are cleared.
ReleaseFlags ==
    /\ rubber_band_active' = FALSE
    /\ pan_active' = FALSE
    /\ zoom_active' = FALSE

mouseReleaseEvent ==
    \E button \in Buttons, zooms \in BOOLEAN :
        /\ Delivered
        /\ ReleaseHistory(button)
        /\ IF button = "Middle" /\ ~HasAxes
           THEN \* chart.axisX() is None: AttributeError
                /\ aborted' = Some("AttributeError")
                /\ UNCHANGED <<axisX, axisY, nops, pan_active,
                               zoom_active, rubber_band_active>>
           ELSE /\ aborted' = aborted
                /\ ReleaseFlags
                /\ IF button = "Middle"
                   THEN /\ axisX' = Some(ResetAxisX)
                        /\ axisY' = Some(ResetAxisY)
                        /\ nops' = nops
                   ELSE IF zooms /\ RubberBandZooms(button)
                   THEN /\ axisX' = Some(RubberBandZoom(button, Val(axisX)))
                        /\ axisY' = Some(RubberBandZoom(button, Val(axisY)))
                        /\ nops' = nops + 1
                   ELSE UNCHANGED <<axisX, axisY, nops>>

\* A slip in the zoom branch: the delta is not clamped.
ZoomDeltaUnclamped(delta) == delta

\* TestChartView.mouseMoveEvent, the zoom branch:
\* delta = np.sign(delta) * min(abs(delta), 10)
ZoomDelta(delta) ==
    (IF delta > 0 THEN 1 ELSE IF delta < 0 THEN -1 ELSE 0)
        * Min(Abs(delta), ZoomLimit)

\* shift = (tf - t0) * delta * 0.01; axis.setMin(t0 + shift);
\* axis.setMax(tf - shift)
ZoomAxis(axis, delta) ==
    LET t0 == axis.min
        tf == axis.max
        shift == ((tf - t0) * ZoomDelta(delta)) \div 100
    IN  SetMax(SetMin(axis, t0 + shift), tf - shift)

\* ... the pan branch: self.chart().scroll(-dx, dy)
Scroll(dx, dy) ==
    /\ scrolled' = [dx |-> scrolled.dx + dx, dy |-> scrolled.dy + dy]
    /\ IF HasAxes
       THEN /\ axisX' = Some(Moved(Val(axisX), dx))
            /\ axisY' = Some(Moved(Val(axisY), dy))
       ELSE UNCHANGED <<axisX, axisY>>

MoveHistory(x, y) ==
    /\ drag' = IF drag = None THEN None
               ELSE Some([Val(drag) EXCEPT !.x = x, !.y = y])
    /\ UNCHANGED <<gesture, pan_active, zoom_active, rubber_band_active,
                   chart, series, ncurves, shown, convVars>>

mouseMoveEvent ==
    \E p \in Positions :
      LET x == p[1]
          y == p[2]
      IN
        /\ Delivered
        /\ MoveHistory(x, y)
        /\ IF ~pan_active /\ ~zoom_active
           THEN UNCHANGED <<mouse_tracker, axisX, axisY, scrolled, nops,
                            aborted>>
           ELSE IF ~CanTrack(mouse_tracker)
           THEN /\ aborted' = Some("TypeError")
                /\ UNCHANGED <<mouse_tracker, axisX, axisY, scrolled, nops>>
           ELSE /\ nops < MaxOps
                /\ nops' = nops + 1
                /\ mouse_tracker' = Track(mouse_tracker, x, y)
                /\ IF pan_active
                   THEN /\ Scroll(-TrackDelta(mouse_tracker, x, y).dx,
                                  TrackDelta(mouse_tracker, x, y).dy)
                        /\ aborted' = aborted
                   ELSE IF ~HasAxes
                   THEN \* axis.min() on None: AttributeError
                        /\ aborted' = Some("AttributeError")
                        /\ UNCHANGED <<axisX, axisY, scrolled>>
                   ELSE /\ axisX' = Some(ZoomAxis(Val(axisX),
                                    TrackDelta(mouse_tracker, x, y).dx))
                        /\ axisY' = Some(ZoomAxis(Val(axisY),
                                    -TrackDelta(mouse_tracker, x, y).dy))
                        /\ UNCHANGED <<scrolled, aborted>>

Next ==
    \/ add_data
    \/ add_scatter
    \/ show
    \/ mousePressEvent
    \/ mouseReleaseEvent
    \/ mouseMoveEvent

Spec == Init /\ [][Next]_vars

ConvSpec == ConvSpecInit /\ [][ConvNext]_vars

\* Every rescaling divided exactly: the axis values are the rationals the
\* handlers compute in real arithmetic.
ExactAxes ==
    /\ nops \in 0..MaxOps
    /\ ncurves \in 0..MaxCurves
    /\ HasAxes =>
        /\ Val(axisX).min % Pow(100, MaxOps - nops) = 0
        /\ Val(axisX).max % Pow(100, MaxOps - nops) = 0
        /\ Val(axisY).min % Pow(100, MaxOps - nops) = 0
        /\ Val(axisY).max % Pow(100, MaxOps - nops) = 0

(***************************************************************************)
(*                        CLAIMS ON THE CONVERTERS                         *)
(***************************************************************************)

SameLength == Len(xdata) = Len(ydata)
Failed == pc \in {"ValueError", "aborted"}

\* C1: for x and y of equal length n >= 0, to_polyline and
\* series_to_polyline return a polyline of exactly n points over a buffer
\* of 2n coordinates with buffer[2i] = x[i] and buffer[2i+1] = y[i] for
\* every i < n, and the call never fails.
C1_Interleaved ==
    (fn \in {"to_polyline", "series_to_polyline"} /\ SameLength) =>
        /\ ~Failed
        /\ pc = "returned" =>
            /\ polyline = Some(Len(xdata))
            /\ Len(memory) = 2 * Len(xdata)
            /\ \A i \in 0..(Len(xdata) - 1) :
                /\ memory[2 * i + 1] = xdata[i + 1]
                /\ memory[2 * i + 2] = ydata[i + 1]

C1_Witness ==
    /\ fn = "to_polyline"
    /\ pc = "returned"
    /\ SameLength
    /\ Len(xdata) >= 2
    /\ xdata # ydata

\* C2: for len(x) # len(y), to_polyline ends in ValueError and returns no
\* polyline; the check comes before any polyline is allocated and before
\* any buffer slot is written.
C2_CheckedFirst ==
    (fn = "to_polyline" /\ ~SameLength) =>
        /\ pc \in {"call", "ValueError"}
        /\ polyline = None
        /\ memory = <<>>

C2_Witness ==
    /\ fn = "to_polyline"
    /\ pc = "ValueError"
    /\ Len(xdata) = 2
    /\ Len(ydata) = 1

\* C3: for x and y of equal length n >= 1, series_to_polystep returns a
\* polyline of exactly 2n-1 points: point 2i is (x[i], y[i]) for i < n and
\* point 2i+1 is (x[i+1], y[i]) for i < n-1.
C3_Steps ==
    (fn = "series_to_polystep" /\ SameLength /\ Len(xdata) >= 1) =>
        /\ ~Failed
        /\ pc = "returned" =>
            /\ polyline = Some(2 * Len(xdata) - 1)
            /\ Len(memory) = 2 * (2 * Len(xdata) - 1)
            /\ \A i \in 0..(Len(xdata) - 1) :
                Points[2 * i + 1] = <<xdata[i + 1], ydata[i + 1]>>
            /\ \A i \in 0..(Len(xdata) - 2) :
                Points[2 * i + 2] = <<xdata[i + 2], ydata[i + 1]>>

C3_Witness ==
    /\ fn = "series_to_polystep"
    /\ pc = "returned"
    /\ SameLength
    /\ Len(xdata) >= 2
    /\ xdata[1] # xdata[2]
    /\ ydata[1] # ydata[2]

\* C4: for len(x) # len(y), series_to_polyline and series_to_polystep end
\* in an error and return no polyline, also when one input has length 1
\* or 0.
C4_MismatchFails ==
    (fn \in {"series_to_polyline", "series_to_polystep"} /\ ~SameLength) =>
        pc # "returned"

(***************************************************************************)
(*                       CLAIMS ON THE CHART WINDOW                        *)
(***************************************************************************)

\* C5: after a left press without Shift at (x0, y0), with no other press
\* and no release since, the scroll applied to the chart by the moves up to
\* the last one, at (xk, yk), is (-(xk - x0), yk - y0).
C5_PanScroll ==
    drag # None =>
        /\ scrolled.dx - Val(drag).sx = -(Val(drag).x - Val(drag).x0)
        /\ scrolled.dy - Val(drag).sy = Val(drag).y - Val(drag).y0

C5_Witness ==
    /\ drag # None
    /\ HasAxes
    /\ Val(drag).x # Val(drag).x0
    /\ Val(drag).y # Val(drag).y0

\* C6: once a series has been added, the ranges recorded in the chart are
\* those the axes had when the default axes were created, whatever pan,
\* zoom and rubber-band interaction followed, and a middle-button release
\* sets the X axis to exactly (x_min, x_max) and the Y axis to (y_min, y_max).
C6_MiddleReset ==
    HasAxes =>
        /\ Val(chart) = Val(series)
        /\ (gesture = Released("Middle") /\ aborted = None) =>
            /\ Val(axisX) = [min |-> Val(chart).x_min, max |-> Val(chart).x_max]
            /\ Val(axisY) = [min |-> Val(chart).y_min, max |-> Val(chart).y_max]

C6_Witness ==
    /\ HasAxes
    /\ gesture = Released("Middle")
    /\ aborted = None
    /\ scrolled.dx # 0
    /\ nops = MaxOps
    /\ Val(axisY) = [min |-> Val(chart).y_min, max |-> Val(chart).y_max]

\* The delta of the claim: d clamped to [-10, 10].
Clamped(d) ==
    IF d > ZoomLimit THEN ZoomLimit ELSE IF d < -ZoomLimit THEN -ZoomLimit ELSE d

\* The new range is [t0 + (tf - t0)*c/100, tf - (tf - t0)*c/100]: the
\* midpoint is kept, the span is 0.8 to 1.2 times the old one, and min < max
\* is kept.
ZoomedBy(old, new, d) ==
    /\ 100 * new.min = 100 * old.min + Span(old) * Clamped(d)
    /\ 100 * new.max = 100 * old.max - Span(old) * Clamped(d)
    /\ new.min + new.max = old.min + old.max
    /\ 10 * Span(new) >= 8 * Span(old)
    /\ 10 * Span(new) <= 12 * Span(old)
    /\ old.min < old.max => new.min < new.max

\* C7: a mouse move while zoom is active and pan is not rescales the X axis
\* by the pointer's dx and the Y axis by -dy, each clamped to [-10, 10]:
\* the new range is [t0 + (tf - t0)*c/100, tf - (tf - t0)*c/100].
C7_Zoom ==
    [][(/\ mouseMoveEvent
        /\ zoom_active
        /\ ~pan_active
        /\ HasAxes
        /\ CanTrack(mouse_tracker)
        /\ aborted' = None)
       => /\ ZoomedBy(Val(axisX), Val(axisX'),
                      Val(mouse_tracker'.x) - Val(mouse_tracker.x))
          /\ ZoomedBy(Val(axisY), Val(axisY'),
                      -(Val(mouse_tracker'.y) - Val(mouse_tracker.y)))]_vars

C7_Witness ==
    /\ HasAxes
    /\ zoom_active
    /\ ~pan_active
    /\ nops = 1
    /\ 100 * Span(Val(axisX)) = 98 * (Val(chart).x_max - Val(chart).x_min)
    /\ 10 * Span(Val(axisY)) = 12 * (Val(chart).y_max - Val(chart).y_min)

\* A press of the left button with exactly Shift held.
ShiftLeftPress == mousePressEvent /\ gesture' = Pressed("rubber")

\* C8 as amended: a Shift+left press activates the rubber band and leaves
\* the pan flag, the zoom flag and the tracker unchanged; the moves that
\* follow it neither scroll the chart nor change the axes unless the pan
\* or the zoom flag was already set when it arrived.
C8_ShiftClick ==
    [][/\ ShiftLeftPress =>
            /\ rubber_band_active'
            /\ UNCHANGED <<pan_active, zoom_active, mouse_tracker>>
       /\ (/\ gesture = Pressed("rubber")
           /\ ~pan_active
           /\ ~zoom_active
           /\ mouseMoveEvent)
          => UNCHANGED <<scrolled, axisX, axisY>>]_vars

C8_Witness ==
    /\ gesture = Pressed("rubber")
    /\ rubber_band_active
    /\ ~pan_active
    /\ ~zoom_active
    /\ HasAxes
    /\ CanTrack(mouse_tracker)
    /\ nops < MaxOps

\* C8 as stated: a Shift+left press changes nothing but the rubber band,
\* so the moves that follow it neither scroll the chart nor change the axes.
C8_AsStated ==
    [][/\ ShiftLeftPress =>
            /\ rubber_band_active'
            /\ UNCHANGED <<pan_active, zoom_active, mouse_tracker>>
       /\ (gesture = Pressed("rubber") /\ mouseMoveEvent)
          => UNCHANGED <<scrolled, axisX, axisY>>]_vars

C10_StartedBeforeTrack ==
    /\ (pan_active \/ zoom_active) => CanTrack(mouse_tracker)
    /\ aborted # Some("TypeError")

C10_Witness ==
    /\ zoom_active
    /\ ~pan_active
    /\ aborted = None
    /\ mouse_tracker.total_dx # 0
    /\ mouse_tracker.total_dy # 0

====
